---------------------------- MODULE Spec2Model ----------------------------
(***************************************************************************)
(* Profile store service of backend/server.js: an express application      *)
(* whose handlers create, list, read, update and delete one directory per  *)
(* profile (profile.json plus one photo file) under data/profiles.         *)
(*                                                                         *)
(* Every handler is an async function: it runs without interruption up to  *)
(* its next `await`, the awaited filesystem call takes effect at some      *)
(* later moment, and the handler resumes after it.  One action of this     *)
(* module is therefore the effect of one awaited filesystem call together  *)
(* with the synchronous code that follows it up to the next `await` (or    *)
(* the response).  Text is modelled as a sequence of one-character         *)
(* strings, so that trim, extname, toLowerCase and substring are computed. *)
(***************************************************************************)
EXTENDS Integers, Sequences, FiniteSets, TLC

VARIABLES
    store,    \* data/profiles: id -> directory [json, photos]
    temp,     \* temp/: staging file name -> image content
    now,      \* the system clock, Date.now()
    uuids,    \* how many ids uuidv4() has handed out
    req,      \* request slot -> the request being served there
    removed   \* history: the ids whose directory a Delete has removed

vars == <<store, temp, now, uuids, req, removed>>

-----------------------------------------------------------------------------
(* Bounds of the model.                                                    *)

MaxIds == 2       \* Create requests that get as far as uuidv4()
MaxTime == 1      \* clock ticks
MaxTemp == 2      \* files the staging directory may hold at once
MaxListIds == 3   \* as MaxIds, in the specification SpecList
MaxCreateIds == 1 \* as MaxIds, in the specification SpecCreate
MaxSeqIds == 2    \* as MaxIds, in the specification SpecSeq

Slots == {"r1", "r2"}

-----------------------------------------------------------------------------
(* Text.                                                                   *)

Space == " "

RECURSIVE trimStart(_)
trimStart(s) ==
    IF s # <<>> /\ Head(s) = Space THEN trimStart(Tail(s)) ELSE s

RECURSIVE trimEnd(_)
trimEnd(s) ==
    IF s # <<>> /\ s[Len(s)] = Space
    THEN trimEnd(SubSeq(s, 1, Len(s) - 1))
    ELSE s

\* String.prototype.trim
trimBothEnds(s) == trimEnd(trimStart(s))

\* A mutant of trim: only leading white space is removed.
trimLeadingOnly(s) == trimStart(s)

trim(s) == trimBothEnds(s)

UpperToLower ==
    [c \in {"P", "N", "G", "J"} |->
        CASE c = "P" -> "p" [] c = "N" -> "n" [] c = "G" -> "g" [] c = "J" -> "j"]

\* String.prototype.toLowerCase
toLowerCase(s) ==
    [i \in 1..Len(s) |-> IF s[i] \in DOMAIN UpperToLower THEN UpperToLower[s[i]] ELSE s[i]]

\* The index of the last "." of s, 0 when there is none.
RECURSIVE lastDot(_, _)
lastDot(s, i) ==
    IF i = 0 THEN 0 ELSE IF s[i] = "." THEN i ELSE lastDot(s, i - 1)

\* path.extname: from the last "." on; "" without one or when it leads the name.
extname(s) ==
    LET d == lastDot(s, Len(s))
    IN  IF d <= 1 THEN <<>> ELSE SubSeq(s, d, Len(s))

\* A JavaScript string is truthy when it is not empty; a missing field is
\* undefined, which is falsy.
Has(body, f) == f \in DOMAIN body
Truthy(body, f) == Has(body, f) /\ body[f] # <<>>

-----------------------------------------------------------------------------
(* Files.                                                                  *)

\* The content of profile.json: the empty text (the file just opened for
\* writing) or the serialised record.
EmptyText == <<>>
stringify(data) == <<data>>
parseable(text) == text # EmptyText
parse(text) == text[1]

\* A directory entry that may be missing: <<>> or <<content>>.
NoFile == <<>>
FileOf(content) == <<content>>

EmptyDir == [json |-> NoFile, photos |-> <<>>]

photosOf(d) == d.photos

Without(f, k) == [x \in DOMAIN f \ {k} |-> f[x]]
With(f, k, v) == [x \in DOMAIN f \cup {k} |-> IF x = k THEN v ELSE f[x]]

\* getProfilePath / pathExists(getProfilePath(id))
dirExists(id) == id \in DOMAIN store
\* pathExists(getJsonPath(id))
jsonExists(id) == dirExists(id) /\ store[id].json # NoFile
\* pathExists(getPhotoPath(id, photoName))
photoExists(id, photoName) == dirExists(id) /\ photoName \in DOMAIN store[id].photos


-----------------------------------------------------------------------------
(* Dates.                                                                  *)

Digits == {"0", "1", "2", "3", "4", "5", "6", "7", "8", "9"}

DigitVal(c) ==
    CASE c = "0" -> 0 [] c = "1" -> 1 [] c = "2" -> 2 [] c = "3" -> 3
      [] c = "4" -> 4 [] c = "5" -> 5 [] c = "6" -> 6 [] c = "7" -> 7
      [] c = "8" -> 8 [] c = "9" -> 9

RECURSIVE NumVal(_)
NumVal(s) == IF s = <<>> THEN 0 ELSE 10 * NumVal(SubSeq(s, 1, Len(s) - 1)) + DigitVal(s[Len(s)])

\* new Date(text) of a date-only text YYYY-MM-DD is a valid date; the other
\* texts of this model ("soon") are an Invalid Date, whose time value is NaN.
\* (No text of the model names a day past the end of its month.)
validDate(text) ==
    /\ Len(text) = 10
    /\ text[5] = "-" /\ text[8] = "-"
    /\ \A i \in {1, 2, 3, 4, 6, 7, 9, 10} : text[i] \in Digits
    /\ NumVal(SubSeq(text, 6, 7)) \in 1..12
    /\ NumVal(SubSeq(text, 9, 10)) \in 1..31

\* The time value of a valid date, in a unit that keeps the calendar order.
timeValue(text) ==
    372 * NumVal(SubSeq(text, 1, 4)) + 31 * NumVal(SubSeq(text, 6, 7)) + NumVal(SubSeq(text, 9, 10))

-----------------------------------------------------------------------------
(* Request inputs.                                                         *)

Ann == <<"A", "n", "n">>
BobPadded == <<" ", "B", "o", "b", " ">>
Bob == <<"B", "o", "b">>
Blank == <<" ">>
Empty == <<>>
Street == <<" ", "1", " ", "M", "a", "i", "n", " ">>
Hello == <<"h", "e", "l", "l", "o", " ">>
Phone == <<" ", "5", "5", "5">>

Jan1 == <<"2", "0", "2", "4", "-", "0", "1", "-", "0", "1">>
Mar5 == <<"2", "0", "2", "4", "-", "0", "3", "-", "0", "5">>
Dec9 == <<"2", "0", "2", "3", "-", "1", "2", "-", "0", "9">>
Soon == <<"s", "o", "o", "n">>

ImageJpeg == <<"i", "m", "a", "g", "e", "/", "j", "p", "e", "g">>
ImagePng == <<"i", "m", "a", "g", "e", "/", "p", "n", "g">>
TextPlain == <<"t", "e", "x", "t", "/", "p", "l", "a", "i", "n">>

\* limits: { fileSize: 5 * 1024 * 1024 }
FileSizeLimit == 5 * 1024 * 1024

CatJpg ==
    [originalname |-> <<"c", "a", "t", ".", "j", "p", "g">>, mimetype |-> ImageJpeg,
     size |-> 1000, content |-> "cat"]
DogPng ==
    [originalname |-> <<"d", "o", "g", ".", "P", "N", "G">>, mimetype |-> ImagePng,
     size |-> 2000, content |-> "dog"]
NotesTxt ==
    [originalname |-> <<"n", ".", "t", "x", "t">>, mimetype |-> TextPlain,
     size |-> 10, content |-> "notes"]
HugeJpg ==
    [originalname |-> <<"h", ".", "j", "p", "g">>, mimetype |-> ImageJpeg,
     size |-> FileSizeLimit + 1, content |-> "huge"]

NoUpload == <<>>

GoodBody == [name |-> Ann, address |-> Street, date |-> Jan1, note |-> Hello]

-----------------------------------------------------------------------------
(* Request slots.                                                          *)

Idle == [pc |-> "idle"]

\* res.status(code).json(body), with the request it answers.
Response(r, code, body) ==
    [pc |-> "done", op |-> r.op, args |-> r.args, status |-> code, body |-> body]

\* A mutant of the failure responses: the error is swallowed and success
\* is answered.
FailureSwallowed(r, code, msg) == Response(r, 200, [success |-> TRUE])

Failure(r, code, msg) == Response(r, code, [success |-> FALSE, error |-> msg])

IdParam(r) == r.args.id

-----------------------------------------------------------------------------
(* multer: upload.single('photo') with diskStorage into temp/.             *)

startsWith(s, p) == Len(s) >= Len(p) /\ SubSeq(s, 1, Len(p)) = p

ImageSlash == <<"i", "m", "a", "g", "e", "/">>

\* A mutant of fileFilter: every file is let through.
fileFilterAny(file) == TRUE

\* fileFilter
fileFilter(file) == startsWith(file.mimetype, ImageSlash)

\* filename: Date.now() and Math.random() make a name no staged file has.
TempNames == 1..(MaxTemp + 1)
uniqueName == CHOOSE n \in TempNames : n \notin DOMAIN temp /\ \A m \in TempNames : m < n => m \in DOMAIN temp

\* A mutant of the middleware: the file is handed to the handler under a
\* staging path at which nothing was written.
multerUploadUnstaged(upl) ==
    IF upl = NoUpload THEN [error |-> "", file |-> <<>>, temp |-> temp]
    ELSE [error |-> "",
          file |-> <<[path |-> uniqueName, originalname |-> upl[1].originalname]>>,
          temp |-> temp]

\* What the middleware leaves: an error for the error-handling middleware,
\* or req.file (<<>> when the request carries no file) and the staged file.
multerUpload(upl) ==
    IF upl = NoUpload THEN [error |-> "", file |-> <<>>, temp |-> temp]
    ELSE IF ~fileFilter(upl[1]) THEN [error |-> "filter", file |-> <<>>, temp |-> temp]
    ELSE IF upl[1].size > FileSizeLimit THEN [error |-> "LIMIT_FILE_SIZE", file |-> <<>>, temp |-> temp]
    ELSE [error |-> "",
          file |-> <<[path |-> uniqueName, originalname |-> upl[1].originalname]>>,
          temp |-> With(temp, uniqueName, upl[1].content)]

\* The error-handling middleware, app.use((err, req, res, next) => ...).
errorMiddleware(r, error) ==
    IF error = "LIMIT_FILE_SIZE"
    THEN Failure(r, 400, "File too large. Max 5MB")
    ELSE Failure(r, 500, "Internal server error")

\* The staging directory has room for one more file.
canStage(upl) == upl # NoUpload => Cardinality(DOMAIN temp) < MaxTemp

-----------------------------------------------------------------------------
(* The clock and the id generator.                                         *)

\* uuidv4(): an id that was never handed out before.
uuidFresh == uuids + 1

\* A mutant of uuidv4: the id of the first free directory name, so that the
\* name of a deleted profile comes back.
uuidFirstFree == CHOOSE i \in 1..(uuids + 1) : i \notin DOMAIN store /\ \A j \in 1..(i - 1) : j \in DOMAIN store

uuidv4 == uuidFresh

Tick ==
    /\ now < MaxTime
    /\ now' = now + 1
    /\ UNCHANGED <<store, temp, uuids, req, removed>>

\* The values two successive `new Date()` may take: the clock may tick
\* between them.
ClockReads == {t \in {now, now + 1} : t <= MaxTime}

-----------------------------------------------------------------------------
(* 1. Create profile: app.post('/api/profiles', upload.single('photo'))    *)

Link(id) == <<"/profile.html?id=", id>>

Photo == <<"p", "h", "o", "t", "o">>

\* `photo${path.extname(originalname).toLowerCase()}`
photoNameLower(originalname) == Photo \o toLowerCase(extname(originalname))

\* A mutant: the extension is kept as uploaded.
photoNameAsUploaded(originalname) == Photo \o extname(originalname)

photoNameOf(originalname) == photoNameLower(originalname)

\* contact ? contact.trim() : null   (null is <<>>, a text t is <<t>>)
Null == <<>>
contactOf(body) == IF Truthy(body, "contact") THEN <<trim(body.contact)>> ELSE Null

\* !name || !address || !date || !note || !req.file
createInvalid(body, file) ==
    \/ ~Truthy(body, "name")
    \/ ~Truthy(body, "address")
    \/ ~Truthy(body, "date")
    \/ ~Truthy(body, "note")
    \/ file = <<>>

\* The request arrives: multer stages the upload, the handler validates the
\* fields, draws the id and calls fs.mkdir.  At most idBudget ids are drawn.
CreateRequest(s, body, upl, idBudget) ==
    /\ req[s] = Idle
    /\ canStage(upl)
    /\ LET r == [op |-> "create", args |-> [body |-> body, upl |-> upl]]
           m == multerUpload(upl)
       IN  IF m.error # ""
           THEN /\ req' = [req EXCEPT ![s] = errorMiddleware(r, m.error)]
                /\ UNCHANGED <<temp, uuids>>
           ELSE /\ temp' = m.temp
                /\ IF createInvalid(body, m.file)
                   THEN /\ req' = [req EXCEPT ![s] = Failure(r, 400, "All fields are required")]
                        /\ UNCHANGED uuids
                   ELSE /\ uuids < idBudget
                        /\ uuids' = uuids + 1
                        /\ req' = [req EXCEPT ![s] =
                                [pc |-> "create_mkdir", op |-> r.op, args |-> r.args,
                                 file |-> m.file[1], id |-> uuidv4]]
    /\ UNCHANGED <<store, now, removed>>

\* fs.mkdir(profilePath, { recursive: true }) takes effect.
CreateMkdir(s) ==
    /\ req[s].pc = "create_mkdir"
    /\ store' = IF dirExists(req[s].id) THEN store ELSE With(store, req[s].id, EmptyDir)
    /\ req' = [req EXCEPT ![s] =
            [req[s] EXCEPT !.pc = "create_rename"] @@
            [photoName |-> photoNameOf(req[s].file.originalname)]]
    /\ UNCHANGED <<temp, now, uuids, removed>>

\* fs.rename(req.file.path, photoPath) takes effect (ENOENT when the staged
\* file or the profile directory is gone), then profileData is built.
CreateRename(s) ==
    /\ req[s].pc = "create_rename"
    /\ LET r == req[s]
       IN  IF r.file.path \in DOMAIN temp /\ dirExists(r.id)
           THEN \E t \in ClockReads :
                /\ temp' = Without(temp, r.file.path)
                /\ store' = [store EXCEPT ![r.id].photos = With(@, r.photoName, temp[r.file.path])]
                /\ now' = t
                /\ req' = [req EXCEPT ![s] =
                        [pc |-> "create_open", op |-> r.op, args |-> r.args, id |-> r.id,
                         data |-> [id |-> r.id,
                                   name |-> trim(r.args.body.name),
                                   address |-> trim(r.args.body.address),
                                   contact |-> contactOf(r.args.body),
                                   photo |-> r.photoName,
                                   date |-> r.args.body.date,
                                   note |-> trim(r.args.body.note),
                                   createdAt |-> now,
                                   updatedAt |-> t]]]
           ELSE /\ req' = [req EXCEPT ![s] = Failure(r, 500, "Failed to create profile")]
                /\ UNCHANGED <<store, temp, now>>
    /\ UNCHANGED <<uuids, removed>>

\* fs.writeFile(jsonPath, text) opens the file for writing, which creates it
\* empty or truncates it (ENOENT when the directory is gone).
openForWrite(id) == [store EXCEPT ![id].json = FileOf(EmptyText)]

\* A mutant of the write: the text is written by path, and a directory that
\* is gone is made again for it.
writeTextByPath(id, text) ==
    IF dirExists(id)
    THEN [store EXCEPT ![id].json = FileOf(text)]
    ELSE With(store, id, [json |-> FileOf(text), photos |-> <<>>])

\* fs.writeFile then writes the text through the open descriptor; a file
\* unlinked in between is written to no name of the store.
writeText(id, text) ==
    IF jsonExists(id) THEN [store EXCEPT ![id].json = FileOf(text)] ELSE store

CreateOpen(s) ==
    /\ req[s].pc = "create_open"
    /\ IF dirExists(req[s].id)
       THEN /\ store' = openForWrite(req[s].id)
            /\ req' = [req EXCEPT ![s].pc = "create_write"]
       ELSE /\ req' = [req EXCEPT ![s] = Failure(req[s], 500, "Failed to create profile")]
            /\ UNCHANGED store
    /\ UNCHANGED <<temp, now, uuids, removed>>

CreateWrite(s) ==
    /\ req[s].pc = "create_write"
    /\ store' = writeText(req[s].id, stringify(req[s].data))
    /\ req' = [req EXCEPT ![s] =
            Response(req[s], 200,
                [success |-> TRUE, id |-> req[s].id, link |-> Link(req[s].id),
                 message |-> "Profile created successfully"])]
    /\ UNCHANGED <<temp, now, uuids, removed>>

\* The response has been sent; the slot serves the next request.
Reply(s) ==
    /\ req[s].pc = "done"
    /\ req' = [req EXCEPT ![s] = Idle]
    /\ UNCHANGED <<store, temp, now, uuids, removed>>

-----------------------------------------------------------------------------
(* 2. Get all profiles: app.get('/api/profiles')                           *)

NoteLimit == 50
Ellipsis == <<".", ".", ".">>

\* data.note.substring(0, 50) + (data.note.length > 50 ? '...' : '')
truncateNote(note) ==
    SubSeq(note, 1, IF Len(note) < NoteLimit THEN Len(note) ELSE NoteLimit)
        \o (IF Len(note) > NoteLimit THEN Ellipsis ELSE <<>>)

\* `/images/${data.id}/${data.photo}`
ImageUrl(data) == <<"/images/", data.id, "/", data.photo>>

\* A property whose value is undefined is left out by JSON.stringify and by
\* res.json: the record has no such field.
Defined(rec, f) == f \in DOMAIN rec
SetOrDrop(rec, f, has, v) == IF has THEN With(rec, f, v) ELSE Without(rec, f)

summaryOf(data) ==
    SetOrDrop([id |-> data.id, name |-> data.name, photo |-> ImageUrl(data),
               note |-> truncateNote(data.note)],
              "date", Defined(data, "date"), IF Defined(data, "date") THEN data.date ELSE <<>>)

hasValidDate(x) == Defined(x, "date") /\ validDate(x.date)

\* (a, b) => new Date(b.date) - new Date(a.date), as Array.prototype.sort
\* reads it: a NaN result counts as 0.
compareNewestFirst(a, b) ==
    IF hasValidDate(a) /\ hasValidDate(b) THEN timeValue(b.date) - timeValue(a.date) ELSE 0

compare(a, b) == compareNewestFirst(a, b)

\* Array.prototype.sort on a short array (V8): the leading run is found,
\* reversed when it descends strictly, and the remaining elements are put in
\* place by binary insertion.
RECURSIVE runEnd(_, _, _)
runEnd(a, desc, i) ==
    IF i > Len(a) THEN Len(a)
    ELSE IF desc = (compare(a[i], a[i - 1]) < 0) THEN runEnd(a, desc, i + 1)
    ELSE i - 1

reverse(a) == [i \in 1..Len(a) |-> a[Len(a) + 1 - i]]

RECURSIVE insertionPoint(_, _, _, _)
insertionPoint(a, pivot, left, right) ==
    IF left >= right THEN left
    ELSE LET mid == left + ((right - left) \div 2)
         IN  IF compare(pivot, a[mid]) < 0
             THEN insertionPoint(a, pivot, left, mid)
             ELSE insertionPoint(a, pivot, mid + 1, right)

RECURSIVE binaryInsertionSort(_, _)
binaryInsertionSort(a, start) ==
    IF start > Len(a) THEN a
    ELSE LET pivot == a[start]
             at == insertionPoint(a, pivot, 1, start)
             moved == SubSeq(a, 1, at - 1) \o <<pivot>> \o SubSeq(a, at, start - 1)
                          \o SubSeq(a, start + 1, Len(a))
         IN  binaryInsertionSort(moved, start + 1)

sort(a) ==
    IF Len(a) < 2 THEN a
    ELSE LET desc == compare(a[2], a[1]) < 0
             run == runEnd(a, desc, 3)
             made == IF desc THEN reverse(SubSeq(a, 1, run)) \o SubSeq(a, run + 1, Len(a)) ELSE a
         IN  binaryInsertionSort(made, run + 1)

\* fs.readdir(profilesDir): the names in an order the file system chooses.
Orders(S) == {f \in [1..Cardinality(S) -> S] : \A i, j \in 1..Cardinality(S) : f[i] = f[j] => i = j}

\* The loop goes on with the next folder, or the handler sorts and answers.
listContinue(r, folders, profiles) ==
    IF folders = <<>>
    THEN Response(r, 200, sort(profiles))
    ELSE [pc |-> "list_exists", op |-> r.op, args |-> r.args, folders |-> folders,
          profiles |-> profiles]

\* The request arrives; pathExists(profilesDir) holds (the directory is never
\* removed) and fs.readdir takes effect.
ListRequest(s) ==
    /\ req[s] = Idle
    /\ \E folders \in Orders(DOMAIN store) :
        req' = [req EXCEPT ![s] = listContinue([op |-> "list", args |-> <<>>], folders, <<>>)]
    /\ UNCHANGED <<store, temp, now, uuids, removed>>

\* pathExists(jsonPath) of the folder at hand takes effect.
listSkipMissing(r) ==
    IF jsonExists(Head(r.folders))
    THEN [r EXCEPT !.pc = "list_read"]
    ELSE listContinue(r, Tail(r.folders), r.profiles)

listCheck(r) == listSkipMissing(r)

ListExists(s) ==
    /\ req[s].pc = "list_exists"
    /\ req' = [req EXCEPT ![s] = listCheck(req[s])]
    /\ UNCHANGED <<store, temp, now, uuids, removed>>

\* fs.readFile(jsonPath) takes effect (ENOENT when the file is gone) and
\* JSON.parse reads the text (SyntaxError on the empty text); either error
\* is caught by the handler's catch.
readable(id) == jsonExists(id) /\ parseable(store[id].json[1])
readJson(id) == parse(store[id].json[1])

ListRead(s) ==
    /\ req[s].pc = "list_read"
    /\ LET r == req[s]
           folder == Head(r.folders)
       IN  req' = [req EXCEPT ![s] =
                IF readable(folder)
                THEN listContinue(r, Tail(r.folders), Append(r.profiles, summaryOf(readJson(folder))))
                ELSE Failure(r, 500, "Failed to fetch profiles")]
    /\ UNCHANGED <<store, temp, now, uuids, removed>>

-----------------------------------------------------------------------------
(* 3. Get single profile: app.get('/api/profiles/:id')                     *)

GetRequest(s, id) ==
    /\ req[s] = Idle
    /\ LET r == [op |-> "get", args |-> [id |-> id]]
       IN  req' = [req EXCEPT ![s] =
                IF jsonExists(id)
                THEN [pc |-> "get_read", op |-> r.op, args |-> r.args]
                ELSE Failure(r, 404, "Profile not found")]
    /\ UNCHANGED <<store, temp, now, uuids, removed>>

GetRead(s) ==
    /\ req[s].pc = "get_read"
    /\ LET r == req[s]
           id == IdParam(r)
       IN  req' = [req EXCEPT ![s] =
                IF readable(id)
                THEN Response(r, 200, With(readJson(id), "photoUrl", ImageUrl(readJson(id))))
                ELSE Failure(r, 500, "Failed to fetch profile")]
    /\ UNCHANGED <<store, temp, now, uuids, removed>>

-----------------------------------------------------------------------------
(* 4. Update profile: app.put('/api/profiles/:id', upload.single('photo')) *)

\* name.trim(), address.trim() and note.trim() throw a TypeError on a field
\* the request does not carry.
updateThrows(body) == ~Has(body, "name") \/ ~Has(body, "address") \/ ~Has(body, "note")

\* existingData with the text fields of the request written over it and
\* updatedAt left as it was read.
updatedFieldsOldStamp(data, body, t) ==
    SetOrDrop([data EXCEPT !.name = trim(body.name),
                           !.address = trim(body.address),
                           !.contact = contactOf(body),
                           !.note = trim(body.note)],
              "date", Has(body, "date"), IF Has(body, "date") THEN body.date ELSE <<>>)

\* A mutant: the record is stamped as if it were created by the update.
updatedFieldsRestamped(data, body, t) ==
    SetOrDrop([data EXCEPT !.name = trim(body.name),
                           !.address = trim(body.address),
                           !.contact = contactOf(body),
                           !.note = trim(body.note),
                           !.createdAt = t,
                           !.updatedAt = t],
              "date", Has(body, "date"), IF Has(body, "date") THEN body.date ELSE <<>>)

\* A mutant: a field the request leaves out or leaves empty keeps its stored
\* value (a merge of the request into the record).
updatedFieldsMerged(data, body, t) ==
    [data EXCEPT !.name = trim(body.name),
                 !.address = trim(body.address),
                 !.contact = IF Truthy(body, "contact") THEN <<trim(body.contact)>> ELSE @,
                 !.date = IF Has(body, "date") THEN body.date ELSE @,
                 !.note = trim(body.note),
                 !.updatedAt = t]

\* existingData with the fields of the request written over it.
updatedFields(data, body, t) ==
    SetOrDrop([data EXCEPT !.name = trim(body.name),
                           !.address = trim(body.address),
                           !.contact = contactOf(body),
                           !.note = trim(body.note),
                           !.updatedAt = t],
              "date", Has(body, "date"), IF Has(body, "date") THEN body.date ELSE <<>>)

\* The request arrives: multer stages the upload and pathExists(jsonPath)
\* takes effect.
UpdateRequest(s, id, body, upl) ==
    /\ req[s] = Idle
    /\ canStage(upl)
    /\ LET r == [op |-> "update", args |-> [id |-> id, body |-> body, upl |-> upl]]
           m == multerUpload(upl)
       IN  IF m.error # ""
           THEN /\ req' = [req EXCEPT ![s] = errorMiddleware(r, m.error)]
                /\ UNCHANGED temp
           ELSE /\ temp' = m.temp
                /\ req' = [req EXCEPT ![s] =
                        IF jsonExists(id)
                        THEN [pc |-> "update_read", op |-> r.op, args |-> r.args, file |-> m.file]
                        ELSE Failure(r, 404, "Profile not found")]
    /\ UNCHANGED <<store, now, uuids, removed>>

\* fs.readFile(jsonPath) takes effect, the text is parsed and the fields are
\* written over; with a new photo pathExists(oldPhotoPath) is called next,
\* without one fs.writeFile.
UpdateRead(s) ==
    /\ req[s].pc = "update_read"
    /\ LET r == req[s]
           id == IdParam(r)
       IN  req' = [req EXCEPT ![s] =
                IF readable(id) /\ ~updateThrows(r.args.body)
                THEN [pc |-> IF r.file # <<>> THEN "update_exists" ELSE "update_open",
                      op |-> r.op, args |-> r.args, file |-> r.file,
                      data |-> updatedFields(readJson(id), r.args.body, now)]
                ELSE Failure(r, 500, "Failed to update profile")]
    /\ UNCHANGED <<store, temp, now, uuids, removed>>

\* pathExists(oldPhotoPath) takes effect.
UpdateOldExists(s) ==
    /\ req[s].pc = "update_exists"
    /\ req' = [req EXCEPT ![s].pc =
            IF photoExists(IdParam(req[s]), req[s].data.photo) THEN "update_unlink" ELSE "update_rename"]
    /\ UNCHANGED <<store, temp, now, uuids, removed>>

\* fs.unlink(oldPhotoPath) takes effect (ENOENT when the file is gone).
UpdateUnlink(s) ==
    /\ req[s].pc = "update_unlink"
    /\ LET r == req[s]
           id == IdParam(r)
       IN  IF photoExists(id, r.data.photo)
           THEN /\ store' = [store EXCEPT ![id].photos = Without(@, r.data.photo)]
                /\ req' = [req EXCEPT ![s].pc = "update_rename"]
           ELSE /\ req' = [req EXCEPT ![s] = Failure(r, 500, "Failed to update profile")]
                /\ UNCHANGED store
    /\ UNCHANGED <<temp, now, uuids, removed>>

\* fs.rename(req.file.path, newPhotoPath) takes effect (ENOENT when the
\* staged file or the directory is gone) and existingData.photo is set.
UpdateRename(s) ==
    /\ req[s].pc = "update_rename"
    /\ LET r == req[s]
           id == IdParam(r)
           file == r.file[1]
           newPhotoName == photoNameOf(file.originalname)
       IN  IF file.path \in DOMAIN temp /\ dirExists(id)
           THEN /\ temp' = Without(temp, file.path)
                /\ store' = [store EXCEPT ![id].photos = With(@, newPhotoName, temp[file.path])]
                /\ req' = [req EXCEPT ![s] =
                        [r EXCEPT !.pc = "update_open", !.data.photo = newPhotoName]]
           ELSE /\ req' = [req EXCEPT ![s] = Failure(r, 500, "Failed to update profile")]
                /\ UNCHANGED <<store, temp>>
    /\ UNCHANGED <<now, uuids, removed>>

UpdateOpen(s) ==
    /\ req[s].pc = "update_open"
    /\ IF dirExists(IdParam(req[s]))
       THEN /\ store' = openForWrite(IdParam(req[s]))
            /\ req' = [req EXCEPT ![s].pc = "update_write"]
       ELSE /\ req' = [req EXCEPT ![s] = Failure(req[s], 500, "Failed to update profile")]
            /\ UNCHANGED store
    /\ UNCHANGED <<temp, now, uuids, removed>>

UpdateWrite(s) ==
    /\ req[s].pc = "update_write"
    /\ store' = writeText(IdParam(req[s]), stringify(req[s].data))
    /\ req' = [req EXCEPT ![s] =
            Response(req[s], 200,
                [success |-> TRUE, id |-> IdParam(req[s]), link |-> Link(IdParam(req[s])),
                 message |-> "Profile updated successfully"])]
    /\ UNCHANGED <<temp, now, uuids, removed>>

-----------------------------------------------------------------------------
(* 5. Delete profile: app.delete('/api/profiles/:id')                      *)

\* fs.rm(profilePath, { recursive: true, force: true })
rmRecursive(id) == Without(store, id)

\* A mutant: only profile.json is removed, the directory stays.
rmJsonOnly(id) == IF dirExists(id) THEN [store EXCEPT ![id].json = NoFile] ELSE store

rm(id) == rmRecursive(id)

\* The request arrives and pathExists(profilePath) takes effect.
DeleteRequest(s, id) ==
    /\ req[s] = Idle
    /\ LET r == [op |-> "delete", args |-> [id |-> id]]
       IN  req' = [req EXCEPT ![s] =
                IF dirExists(id)
                THEN [pc |-> "delete_rm", op |-> r.op, args |-> r.args]
                ELSE Failure(r, 404, "Profile not found")]
    /\ UNCHANGED <<store, temp, now, uuids, removed>>

\* fs.rm takes effect (force: a directory already gone is no error).
DeleteRm(s) ==
    /\ req[s].pc = "delete_rm"
    /\ store' = rm(IdParam(req[s]))
    /\ removed' = removed \cup {IdParam(req[s])}
    /\ req' = [req EXCEPT ![s] =
            Response(req[s], 200, [success |-> TRUE, message |-> "Profile deleted successfully"])]
    /\ UNCHANGED <<temp, now, uuids>>

-----------------------------------------------------------------------------
(* The service.                                                            *)

\* ensureDirectories() has made data/profiles and temp; no request yet.
Init ==
    /\ store = <<>>
    /\ temp = <<>>
    /\ now = 0
    /\ uuids = 0
    /\ req = [s \in Slots |-> Idle]
    /\ removed = {}

\* The steps a request takes once it has arrived.
CreateStep(s) == CreateMkdir(s) \/ CreateRename(s) \/ CreateOpen(s) \/ CreateWrite(s)
ListStep(s) == ListExists(s) \/ ListRead(s)
UpdateStep(s) ==
    \/ UpdateRead(s) \/ UpdateOldExists(s) \/ UpdateUnlink(s) \/ UpdateRename(s)
    \/ UpdateOpen(s) \/ UpdateWrite(s)

\* No request is being served: every slot is free or holds a response.
Quiescent == \A s \in Slots : req[s].pc \in {"idle", "done"}

\* Concurrent requests: two at a time, every operation, few inputs.
Ids == 1..MaxIds
Renamed == [GoodBody EXCEPT !.name = BobPadded]

Next ==
    \/ Tick
    \/ \E s \in Slots :
        \/ CreateStep(s) \/ ListStep(s) \/ GetRead(s) \/ UpdateStep(s) \/ DeleteRm(s) \/ Reply(s)
        \/ \E upl \in {NoUpload, <<CatJpg>>} : CreateRequest(s, GoodBody, upl, MaxIds)
        \/ ListRequest(s)
        \/ \E id \in Ids : GetRequest(s, id)
        \/ \E id \in Ids, upl \in {NoUpload, <<DogPng>>, <<NotesTxt>>} :
              UpdateRequest(s, id, Renamed, upl)
        \/ \E id \in Ids : DeleteRequest(s, id)

Spec == Init /\ [][Next]_vars

\* One request at a time, a response staying in its slot until the slot is
\* used again: profiles are created, fetched and listed, never changed.
Dated(d) == [GoodBody EXCEPT !.date = d]
BobBody == [name |-> BobPadded, address |-> Street, contact |-> Phone, date |-> Mar5, note |-> Hello]

ValidBodies ==
    {Dated(d) : d \in {Jan1, Mar5, Dec9, Soon}}
        \cup {BobBody, GoodBody @@ [contact |-> Blank], GoodBody @@ [contact |-> Empty]}

LackingBodies ==
    {Without(GoodBody, "name"), [GoodBody EXCEPT !.address = Empty],
     Without(GoodBody, "date"), [GoodBody EXCEPT !.note = Empty]}

\* Bodies whose required fields are all truthy, one of them only spaces.
BlankBodies == {[GoodBody EXCEPT !.name = Blank], [GoodBody EXCEPT !.note = Blank]}

CreateInputs ==
    ((ValidBodies \cup BlankBodies) \X {<<CatJpg>>})
        \cup ({GoodBody} \X {NoUpload, <<DogPng>>, <<NotesTxt>>, <<HugeJpg>>})
        \cup (LackingBodies \X {NoUpload, <<CatJpg>>})

CreateIds == 1..MaxCreateIds

NextCreate ==
    \E s \in Slots :
        \/ CreateStep(s) \/ GetRead(s) \/ Reply(s)
        \/ Quiescent /\ \E in \in CreateInputs : CreateRequest(s, in[1], in[2], MaxCreateIds)
        \/ Quiescent /\ \E id \in CreateIds : GetRequest(s, id)

SpecCreate == Init /\ [][NextCreate]_vars

\* One client that creates profiles and lists them, one request after the
\* other.
NextList ==
    \E s \in {"r1"} :
        \/ CreateStep(s) \/ ListStep(s) \/ Reply(s)
        \/ \E d \in {Jan1, Mar5, Dec9, Soon} : CreateRequest(s, Dated(d), <<CatJpg>>, MaxListIds)
        \/ ListRequest(s)

SpecList == Init /\ [][NextList]_vars

\* One client that creates, updates, fetches and deletes profiles, one
\* request after the other.
SeqIds == 1..MaxSeqIds

UpdateBodies ==
    {Renamed, BobBody, GoodBody @@ [contact |-> Blank], GoodBody @@ [contact |-> Empty],
     Dated(Soon), Without(GoodBody, "date"),
     Without(GoodBody, "name"), Without(GoodBody, "address"),
     [GoodBody EXCEPT !.name = Empty],
     [GoodBody EXCEPT !.name = Blank], Without(GoodBody, "note")}

NextSeq ==
    \/ Tick
    \/ \E s \in {"r1"} :
        \/ CreateStep(s) \/ GetRead(s) \/ UpdateStep(s) \/ DeleteRm(s) \/ Reply(s)
        \/ \E in \in {<<GoodBody, <<CatJpg>>>>, <<BobBody, <<DogPng>>>>} :
              CreateRequest(s, in[1], in[2], MaxSeqIds)
        \/ \E id \in SeqIds : GetRequest(s, id)
        \/ \E id \in SeqIds, body \in UpdateBodies,
              upl \in {NoUpload, <<CatJpg>>, <<DogPng>>, <<NotesTxt>>} :
              UpdateRequest(s, id, body, upl)
        \/ \E id \in SeqIds : DeleteRequest(s, id)

SpecSeq == Init /\ [][NextSeq]_vars

\* Two clients that update one profile at the same time, without images,
\* each with its own field values.
MaxRaceIds == 1
RaceIds == 1..MaxRaceIds
RaceBodies == {BobBody, Dated(Soon), Without(GoodBody, "date")}

NextRace ==
    \/ Tick
    \/ \E s \in Slots :
        \/ CreateStep(s) \/ UpdateRead(s) \/ UpdateOpen(s) \/ UpdateWrite(s) \/ Reply(s)
        \/ CreateRequest(s, GoodBody @@ [contact |-> Phone], <<CatJpg>>, MaxRaceIds)
        \/ \E id \in RaceIds, body \in RaceBodies : UpdateRequest(s, id, body, NoUpload)

SpecRace == Init /\ [][NextRace]_vars

-----------------------------------------------------------------------------
(* Properties.                                                             *)

Done(s) == req[s].pc = "done"
InFlight(s) == req[s].pc \notin {"idle", "done"}
PhotoFiles(id) == DOMAIN store[id].photos

\* C1: in every quiescent state, every profile directory holds exactly one
\* metadata record and exactly one photo file, the one the record's `photo`
\* field names.
C1_QuiescentDirectoriesConsistent ==
    Quiescent =>
        \A id \in DOMAIN store :
            /\ readable(id)
            /\ Cardinality(PhotoFiles(id)) = 1
            /\ readJson(id).photo \in PhotoFiles(id)

\* C2: whenever Get or List returns a profile, the photo file its `photo`
\* field names exists in the profile's directory at that moment.
C2_ReturnedPhotoExists ==
    [][\A s \in Slots :
        (InFlight(s) /\ req'[s].pc = "done" /\ req'[s].status = 200) =>
            /\ req[s].op = "get" =>
                  /\ IdParam(req[s]) \in DOMAIN store'
                  /\ req'[s].body.photo \in DOMAIN store'[IdParam(req[s])].photos
            /\ req[s].op = "list" =>
                  \A i \in 1..Len(req'[s].body) :
                      LET url == req'[s].body[i].photo
                      IN  /\ url[2] \in DOMAIN store'
                          /\ url[4] \in DOMAIN store'[url[2]].photos]_vars

\* A request on id arrives in slot s in this step.
Arrives(s, ops) == req[s] = Idle /\ req'[s] # Idle /\ req'[s].op \in ops

\* C4 as stated: once a Delete(id) has succeeded, the directory of id is gone
\* and every Get, Update and Delete of id that arrives fails with 404.
C4_AfterDeleteNotFound ==
    [][/\ \A id \in removed' : id \notin DOMAIN store'
       /\ \A s \in Slots :
            (Arrives(s, {"get", "update", "delete"}) /\ IdParam(req'[s]) \in removed) =>
                (req'[s].pc = "done" /\ req'[s].status = 404)]_vars

\* multer passes the request on to the handler.
PassesUpload(upl) == upl = NoUpload \/ (fileFilter(upl[1]) /\ upl[1].size <= FileSizeLimit)

\* C4, amended: once a Delete(id) has succeeded, the directory of id is gone
\* and every Get and Delete of id, and every Update of id whose upload the
\* upload middleware accepts, fails with 404.
C4_AfterDeleteNotFoundInHandler ==
    [][/\ \A id \in removed' : id \notin DOMAIN store'
       /\ \A s \in Slots :
            (/\ Arrives(s, {"get", "update", "delete"})
             /\ IdParam(req'[s]) \in removed
             /\ req'[s].op = "update" => PassesUpload(req'[s].args.upl)) =>
                (req'[s].pc = "done" /\ req'[s].status = 404)]_vars

\* A Get, an Update and a Delete of a removed id have each been answered 404.
C4_Witness ==
    \E s \in Slots :
        /\ Done(s) /\ req[s].op = "update" /\ req[s].status = 404
        /\ IdParam(req[s]) \in removed
        /\ \E t \in Slots \ {s} :
            /\ Done(t) /\ req[t].op \in {"get", "delete"} /\ req[t].status = 404
            /\ IdParam(req[t]) = IdParam(req[s])

\* C5: a List whose scan meets a profile that a Delete has removed since
\* the scan began goes on without that profile; it does not fail.
C5_ListCompletesDuringDelete ==
    [][\A s \in Slots :
        (/\ req[s].pc \in {"list_exists", "list_read"}
         /\ ~dirExists(Head(req[s].folders))
         /\ req'[s].pc = "done") => req'[s].status = 200]_vars

\* C6: List skips a directory whose metadata record is missing or is not
\* valid JSON: the scan goes on with the next directory and the profiles
\* gathered so far are kept.
C6_ListSkipsUnreadable ==
    [][\A s \in Slots :
        (/\ req[s].pc \in {"list_exists", "list_read"}
         /\ ~readable(Head(req[s].folders))
         /\ req'[s] # req[s]
         /\ req'[s].pc # "list_read") =>
            \/ /\ req'[s].pc = "list_exists"
               /\ req'[s].folders = Tail(req[s].folders)
               /\ req'[s].profiles = req[s].profiles
            \/ /\ req'[s].pc = "done"
               /\ req'[s].status = 200
               /\ Tail(req[s].folders) = <<>>]_vars

\* The ids of every profile there has been: the directories, those a Delete
\* has removed, and the ids drawn by a Create still under way.
UsedIds == DOMAIN store \cup removed \cup {req[s].id : s \in {t \in Slots : "id" \in DOMAIN req[t]}}

\* C8: the id a Create draws was never used by an earlier profile, deleted
\* ones included, and a successful Create returns that id and a link that
\* contains it.
C8_CreateReturnsFreshId ==
    [][\A s \in Slots :
        /\ (req[s] = Idle /\ req'[s].pc = "create_mkdir") => req'[s].id \notin UsedIds
        /\ (req[s].pc = "create_write" /\ req'[s].pc = "done") =>
              /\ req'[s].status = 200
              /\ req'[s].body.id = req[s].id
              /\ req'[s].body.link = <<"/profile.html?id=", req[s].id>>]_vars

\* A Create has succeeded after an earlier profile was deleted.
C8_Witness ==
    \E s \in Slots :
        /\ Done(s) /\ req[s].op = "create" /\ req[s].status = 200
        /\ removed # {}
        /\ req[s].body.id \notin removed

RequiredFields == {"name", "address", "date", "note"}

\* The request lacks a required text field (missing or empty) or an image.
Lacking(args) == args.upl = NoUpload \/ \E f \in RequiredFields : ~Truthy(args.body, f)

\* C3: a Create that lacks a required text field or an image is answered 400
\* and leaves the profile store and the staging directory as they were.
C3_LackingCreateChangesNothing ==
    [][\A s \in Slots :
        (Arrives(s, {"create"}) /\ Lacking(req'[s].args)) =>
            /\ req'[s].pc = "done" /\ req'[s].status = 400
            /\ store' = store
            /\ temp' = temp]_vars

\* Summaries i < j of a listing are in order when the first is the newer.
NewestFirst(b) ==
    \A i, j \in 1..Len(b) :
        (i < j /\ hasValidDate(b[i]) /\ hasValidDate(b[j])) =>
            timeValue(b[i].date) > timeValue(b[j].date)

StoredDate(id) == readJson(id).date

\* C7: with N profiles created from the empty store, their dates pairwise
\* distinct, a List returns exactly N summaries, one per created id, the
\* newer before the older.
C7_ListNewestFirst ==
    [][\A s \in Slots :
        (/\ InFlight(s) \/ req[s] = Idle
         /\ req'[s].pc = "done" /\ req'[s].op = "list"
         /\ \A id \in DOMAIN store : readable(id)
         /\ \A id, jd \in DOMAIN store : id # jd => StoredDate(id) # StoredDate(jd)) =>
            /\ req'[s].status = 200
            /\ Len(req'[s].body) = uuids
            /\ {req'[s].body[i].id : i \in 1..Len(req'[s].body)} = 1..uuids
            /\ NewestFirst(req'[s].body)]_vars

\* t is s without its leading and trailing spaces.
IsTrimOf(t, s) ==
    \E i, j \in 0..Len(s) :
        /\ i + j <= Len(s)
        /\ \A k \in 1..i : s[k] = Space
        /\ \A k \in (Len(s) - j + 1)..Len(s) : s[k] = Space
        /\ t = SubSeq(s, i + 1, Len(s) - j)
        /\ t # <<>> => (t[1] # Space /\ t[Len(t)] # Space)

\* C9: a Get of a profile that a Create has just made returns the name,
\* address, note and contact supplied, trimmed (no contact, or an empty one,
\* comes back as null), the date as supplied, and photoUrl
\* /images/<id>/<photo>, <photo> being the photo file of the directory.
C9_GetReturnsCreated ==
    \A s, t \in Slots :
        (/\ Done(s) /\ req[s].op = "create" /\ req[s].status = 200
         /\ Done(t) /\ req[t].op = "get" /\ req[t].status = 200
         /\ IdParam(req[t]) = req[s].body.id) =>
            LET given == req[s].args.body
                got == req[t].body
                id == req[s].body.id
            IN  /\ IsTrimOf(got.name, given.name)
                /\ IsTrimOf(got.address, given.address)
                /\ IsTrimOf(got.note, given.note)
                /\ IF Truthy(given, "contact")
                   THEN Len(got.contact) = 1 /\ IsTrimOf(got.contact[1], given.contact)
                   ELSE got.contact = Null
                /\ got.date = given.date
                /\ got.id = id
                /\ got.photoUrl = <<"/images/", id, "/", got.photo>>
                /\ PhotoFiles(id) = {got.photo}

\* A Get has returned a profile created with padded name, address, note and
\* contact.
C9_Witness ==
    \E s, t \in Slots :
        /\ Done(s) /\ req[s].op = "create" /\ req[s].status = 200
        /\ req[s].args.body = BobBody
        /\ Done(t) /\ req[t].op = "get" /\ req[t].status = 200
        /\ IdParam(req[t]) = req[s].body.id
        /\ req[t].body.name = Bob

\* s serves an Update that carries no image.
UpdateWithoutImage(s) ==
    InFlight(s) /\ req[s].op = "update" /\ req[s].args.upl = NoUpload

\* What an Update without image does to the photo: no step of it changes the
\* photo files, the record it holds keeps the `photo` it read, and that
\* record is what it stores.
PhotoKept(s) ==
    LET id == IdParam(req[s])
    IN  /\ dirExists(id) => (id \in DOMAIN store' /\ store'[id].photos = store[id].photos)
        /\ (req[s].pc = "update_read" /\ req'[s].pc = "update_open") =>
              req'[s].data.photo = readJson(id).photo
        /\ (req[s].pc = "update_open" /\ req'[s].pc = "update_write") =>
              req'[s].data.photo = req[s].data.photo
        /\ (req[s].pc = "update_write" /\ req'[s].pc = "done") =>
              /\ req'[s].status = 200
              /\ store'[id].json = FileOf(stringify(req[s].data))

UpdateWithImage(s) ==
    InFlight(s) /\ req[s].op = "update" /\ req[s].args.upl # NoUpload

\* photo<lowercased ext> for the file name the client gave.
NormalizedName(upl) == Photo \o toLowerCase(extname(upl[1].originalname))

NonImage(upl) ==
    upl # NoUpload /\ ~(\E k \in 0..Len(upl[1].mimetype) :
                            SubSeq(upl[1].mimetype, 1, k) = ImageSlash)

\* C12: a Create whose uploaded file is not of an image content type is
\* answered with an error, and neither a profile directory nor a record nor
\* a photo is added to the store (no id is drawn, nothing is staged).
C12_NonImageCreateRejected ==
    [][\A s \in Slots :
        (Arrives(s, {"create"}) /\ NonImage(req'[s].args.upl)) =>
            /\ req'[s].pc = "done"
            /\ req'[s].status >= 400
            /\ req'[s].body.success = FALSE
            /\ store' = store
            /\ temp' = temp
            /\ uuids' = uuids]_vars

\* A Create that uploaded notes.txt (text/plain) with all the text fields
\* has been answered with an error.
C12_Witness ==
    \E s \in Slots :
        /\ Done(s) /\ req[s].op = "create"
        /\ req[s].args.upl = <<NotesTxt>>
        /\ req[s].args.body = GoodBody
        /\ req[s].status = 500
        /\ \A id \in DOMAIN store : store[id].photos # <<>> => "notes" \notin {store[id].photos[n] : n \in DOMAIN store[id].photos}

\* C13: every stored metadata record has a non-empty name, address and note
\* and a date.
C13_StoredRequiredFieldsNonEmpty ==
    \A id \in DOMAIN store :
        readable(id) =>
            /\ readJson(id).name # Empty
            /\ readJson(id).address # Empty
            /\ readJson(id).note # Empty
            /\ Defined(readJson(id), "date")

\* s serves a Create that has passed validation.
CreateUnderWay(s) == InFlight(s) /\ req[s].op = "create"

\* The directory of id holds a photo file / a metadata file.
HoldsPhoto(st, id) == id \in DOMAIN st /\ st[id].photos # <<>>
HoldsRecord(st, id) == id \in DOMAIN st /\ st[id].json # NoFile

\* C14: during a Create the uploaded image stays in the staging directory,
\* and in no profile directory, until the directory of the new profile has
\* been made; the step that moves it there finds the directory made and no
\* metadata file in it, and the metadata file is only made in a directory
\* that holds the photo.
C14_MoveAfterMkdirBeforeRecord ==
    [][\A s \in Slots :
        CreateUnderWay(s) =>
            LET id == req[s].id
                image == req[s].args.upl[1].content
            IN  /\ req[s].pc \in {"create_mkdir", "create_rename"} =>
                      /\ req[s].file.path \in DOMAIN temp
                      /\ temp[req[s].file.path] = image
                      /\ ~HoldsPhoto(store, id)
                      /\ ~HoldsRecord(store, id)
                /\ req[s].pc = "create_mkdir" => ~dirExists(id) /\ ~HoldsPhoto(store', id)
                /\ (~HoldsPhoto(store, id) /\ HoldsPhoto(store', id)) =>
                      /\ req[s].pc = "create_rename" /\ req'[s].pc = "create_open"
                      /\ dirExists(id)
                      /\ store'[id].photos = req[s].photoName :> image
                      /\ req[s].file.path \notin DOMAIN temp'
                      /\ ~HoldsRecord(store', id)
                /\ (~HoldsRecord(store, id) /\ HoldsRecord(store', id)) =>
                      /\ req[s].pc = "create_open"
                      /\ HoldsPhoto(store, id)]_vars

\* A Create has moved the image into the directory it made and has not
\* yet written the metadata record; nothing is left in the staging directory.
C14_Witness ==
    \E s \in Slots :
        /\ CreateUnderWay(s) /\ req[s].pc = "create_open"
        /\ dirExists(req[s].id)
        /\ store[req[s].id].photos = (Photo \o <<".", "j", "p", "g">>) :> "cat"
        /\ store[req[s].id].json = NoFile
        /\ temp = <<>>

\* s holds a record it is about to write, for the profile TargetId(s).
Held(s) == InFlight(s) /\ "data" \in DOMAIN req[s]
TargetId(s) == IF req[s].op = "create" THEN req[s].id ELSE IdParam(req[s])

\* C15: each stored record carries the name of its directory as id, and no
\* step changes the id or the createdAt of a record; the records that
\* requests hold in memory for a profile carry its id and the createdAt of
\* the stored record, and what a request writes is the record it holds.
C15_IdAndCreatedAtFixed ==
    [][/\ \A id \in DOMAIN store' :
            readable(id)' =>
                /\ readJson(id)'.id = id
                /\ readable(id) => readJson(id)'.createdAt = readJson(id).createdAt
       /\ \A s \in Slots :
            Held(s) =>
                /\ req[s].data.id = TargetId(s)
                /\ readable(TargetId(s)) =>
                      readJson(TargetId(s)).createdAt = req[s].data.createdAt
                /\ \A t \in Slots :
                      (Held(t) /\ TargetId(t) = TargetId(s)) =>
                          req[t].data.createdAt = req[s].data.createdAt
                /\ \A id \in {TargetId(s)} :
                      (req'[s].pc = "done" /\ req'[s].status = 200 /\ jsonExists(id)') =>
                          readJson(id)' = req[s].data]_vars

\* Two Updates of the same profile have both succeeded, after the clock has
\* moved on from the creation; the record they left is stored under its id.
C15_Witness ==
    \E s, t \in Slots :
        /\ s # t
        /\ Done(s) /\ req[s].op = "update" /\ req[s].status = 200
        /\ Done(t) /\ req[t].op = "update" /\ req[t].status = 200
        /\ IdParam(req[s]) = IdParam(req[t])
        /\ readable(IdParam(req[s]))
        /\ readJson(IdParam(req[s])).id = IdParam(req[s])
        /\ readJson(IdParam(req[s])).createdAt < now

\* C16: the contact of every stored record is null or a non-empty text
\* without spaces around it.
C16_ContactNullOrNonEmpty ==
    \A id \in DOMAIN store :
        readable(id) =>
            \/ readJson(id).contact = Null
            \/ /\ Len(readJson(id).contact) = 1
               /\ readJson(id).contact[1] # Empty
               /\ IsTrimOf(readJson(id).contact[1], readJson(id).contact[1])

\* The text fields of record d are those of the request body, trimmed: an
\* absent or empty contact is null and an absent date is absent.
FieldsFrom(d, body) ==
    /\ IsTrimOf(d.name, body.name)
    /\ IsTrimOf(d.address, body.address)
    /\ IsTrimOf(d.note, body.note)
    /\ IF Truthy(body, "contact")
       THEN Len(d.contact) = 1 /\ IsTrimOf(d.contact[1], body.contact)
       ELSE d.contact = Null
    /\ IF Has(body, "date")
       THEN Defined(d, "date") /\ d.date = body.date
       ELSE ~Defined(d, "date")

\* s and t have both answered 200 to an Update without image of one profile.
BothUpdated(s, t) ==
    /\ s # t
    /\ Done(s) /\ req[s].op = "update" /\ req[s].status = 200
    /\ Done(t) /\ req[t].op = "update" /\ req[t].status = 200
    /\ IdParam(req[s]) = IdParam(req[t])

OutlivesDelete(s) ==
    InFlight(s) /\ req[s].op \in {"create", "update"} /\ TargetId(s) \in removed

Omits(body) == \E f \in {"name", "address", "note"} : f \notin DOMAIN body

\* C19: an Update of an existing profile whose body omits name, address or
\* note gets as far as reading the record and then fails with 500; from its
\* arrival to its answer the store (record and photo) stays as it was.
C19_OmittingUpdateChangesNothing ==
    [][\A s \in Slots :
        /\ (Arrives(s, {"update"}) /\ Omits(req'[s].args.body) /\ req'[s].pc # "done") =>
              /\ req'[s].pc = "update_read"
              /\ store' = store
        /\ (InFlight(s) /\ req[s].op = "update" /\ Omits(req[s].args.body)) =>
              /\ req[s].pc = "update_read"
              /\ store' = store
              /\ req'[s] # req[s] =>
                    /\ req'[s].pc = "done"
                    /\ req'[s].status = 500
                    /\ req'[s].body.success = FALSE]_vars

\* An Update that omitted the name and uploaded dog.PNG has failed; the
\* profile still has the record and the photo of its creation.
C19_Witness ==
    \E s \in Slots :
        /\ Done(s) /\ req[s].op = "update" /\ req[s].status = 500
        /\ req[s].args.body = Without(GoodBody, "name")
        /\ req[s].args.upl = <<DogPng>>
        /\ readable(IdParam(req[s]))
        /\ readJson(IdParam(req[s])).name = Ann
        /\ readJson(IdParam(req[s])).updatedAt < now
        /\ store[IdParam(req[s])].photos = (Photo \o <<".", "j", "p", "g">>) :> "cat"

=============================================================================
